---- MODULE Spec2Model ----
(***************************************************************************)
(* Model of SoapySdrRx (src/src/blocks/io/rf/soapysdr.rs): the lifecycle   *)
(* state Idle/Active/Invalid behind a tokio Mutex, the async entry points  *)
(* activate and deactivate, the closures they dispatch with spawn_blocking *)
(* and the worker thread that reads from the device and forwards batches.  *)
(***************************************************************************)
EXTENDS Integers, Sequences, FiniteSets, TLC

\* ---- bounds ----
MaxCalls == 3
MaxReads == 1
DevMtu == 1

\* sample rate the adapter was constructed with
SampleRate == 2000000

\* two tasks that call activate/deactivate on the one adapter concurrently
Tasks == {1, 2}
Workers == 1..MaxCalls

VARIABLES
    state,      \* self.state: the SoapySdrRxState value inside the Mutex
    lock,       \* task holding the state_guard, 0 when the Mutex is free
    pc,         \* per task: position inside activate / deactivate
    op,         \* per task: which entry point the task is running
    seen,       \* per task: tag of the value take(&mut *state_guard) returned
    taken,      \* per task: the value moved out of the state by take
    ret,        \* per task: result of the task's last call
    blk,        \* per task: the closure dispatched with spawn_blocking
    ncalls,     \* number of calls issued so far
    nspawn,     \* number of worker threads spawned so far
    wpc,        \* per worker: position in the thread closure
    wrx,        \* per worker: rx_stream handles the thread owns
    wresult,    \* per worker: the local `result`
    wreads,     \* per worker: successful reads so far
    wbatch,     \* per worker: length of the batch being sent
    abort,      \* per worker: the watch::Sender (abort_send)
    dev,        \* the device: stream activated?, operation parity, last operation
    sink,       \* the distribution sink behind self.sender
    delivered,  \* batches the sink accepted, in order
    dropped     \* rx_stream handles destroyed

vars == <<state, lock, pc, op, seen, taken, ret, blk, ncalls, nspawn,
          wpc, wrx, wresult, wreads, wbatch, abort, dev, sink, delivered,
          dropped>>

taskVars == <<pc, op, seen, taken, ret, ncalls>>
workerVars == <<nspawn, wpc, wrx, wresult, wreads, wbatch, abort>>
sinkVars == <<sink, delivered>>

\* ---- values ----
\* Result<(), soapysdr::Error>: Ok(()) or Err of the device operation `o`
\* issued by worker `w` (0: by activate) as its k-th read (0: not a read)
Ok == [op |-> "ok", w |-> 0, k |-> 0]
Err(o, w, k) == [op |-> o, w |-> w, k |-> k]
NoResult == [op |-> "none", w |-> 0, k |-> 0]
Panicked == [op |-> "panic", w |-> 0, k |-> 0]
Abandoned == [op |-> "abandoned", w |-> 0, k |-> 0]
IsErr(r) == r.op \in {"mtu", "activate", "read", "deactivate"}

\* enum SoapySdrRxState; rx counts the rx_stream handles the value holds,
\* worker names the thread whose abort sender and join handle it holds
Idle(n) == [tag |-> "Idle", rx |-> n, worker |-> 0]
Active(w) == [tag |-> "Active", rx |-> 0, worker |-> w]
Invalid == [tag |-> "Invalid", rx |-> 0, worker |-> 0]
\* the state after the SoapySdrRx value itself has been dropped
Dropped == [tag |-> "Dropped", rx |-> 0, worker |-> 0]

\* the device after operation o on it, which succeeded or not and leaves the
\* stream active or not: tick flips on every operation issued to the device;
\* n is the sample count a read returned, 0 for the other operations
DevOp(o, ok, active) ==
    [active |-> active, tick |-> 1 - dev.tick,
     last |-> [op |-> o, ok |-> ok, n |-> 0]]

\* Vec::truncate: the length of a buffer of length len after truncate(n)
Truncate(len, n) == IF n < len THEN n ELSE len

NoClosure == [stage |-> "none", rx |-> 0, worker |-> 0, res |-> NoResult]

Init ==
    /\ state = Idle(1)
    /\ lock = 0
    /\ pc = [t \in Tasks |-> "idle"]
    /\ op = [t \in Tasks |-> "none"]
    /\ seen = [t \in Tasks |-> "none"]
    /\ taken = [t \in Tasks |-> Invalid]
    /\ ret = [t \in Tasks |-> NoResult]
    /\ blk = [t \in Tasks |-> NoClosure]
    /\ ncalls = 0
    /\ nspawn = 0
    /\ wpc = [w \in Workers |-> "none"]
    /\ wrx = [w \in Workers |-> 0]
    /\ wresult = [w \in Workers |-> NoResult]
    /\ wreads = [w \in Workers |-> 0]
    /\ wbatch = [w \in Workers |-> 0]
    /\ abort = [w \in Workers |-> "none"]
    /\ dev = [active |-> FALSE, tick |-> 0, last |-> [op |-> "none", ok |-> TRUE, n |-> 0]]
    /\ sink = "ready"
    /\ delivered = <<>>
    /\ dropped = 0

\* ---- entry points ----

\* a task calls activate() or deactivate() and waits for self.state.lock()
Call(t, o) ==
    /\ pc[t] = "idle"
    /\ state.tag # "Dropped"
    /\ ncalls < MaxCalls
    /\ ncalls' = ncalls + 1
    /\ pc' = [pc EXCEPT ![t] = "lock"]
    /\ op' = [op EXCEPT ![t] = o]
    /\ seen' = [seen EXCEPT ![t] = "none"]
    /\ ret' = [ret EXCEPT ![t] = NoResult]
    /\ UNCHANGED <<state, lock, taken, blk, workerVars, dev, sinkVars, dropped>>

\* mutant of LockTake: the state is taken without waiting for the lock
LockTakeWithoutLock(t) ==
    /\ pc[t] = "lock"
    /\ lock' = t
    /\ seen' = [seen EXCEPT ![t] = state.tag]
    /\ taken' = [taken EXCEPT ![t] = state]
    /\ state' = Invalid
    /\ pc' = [pc EXCEPT ![t] = "taken"]
    /\ UNCHANGED <<op, ret, blk, ncalls, workerVars, dev, sinkVars, dropped>>

\* the lock is granted and take() moves the state out, leaving Invalid
LockTake(t) ==
    /\ pc[t] = "lock"
    /\ lock = 0
    /\ lock' = t
    /\ seen' = [seen EXCEPT ![t] = state.tag]
    /\ taken' = [taken EXCEPT ![t] = state]
    /\ state' = Invalid
    /\ pc' = [pc EXCEPT ![t] = "taken"]
    /\ UNCHANGED <<op, ret, blk, ncalls, workerVars, dev, sinkVars, dropped>>

\* the call returns r: the guard is dropped and the Mutex is free again
Return(t, r) ==
    /\ pc' = [pc EXCEPT ![t] = "idle"]
    /\ ret' = [ret EXCEPT ![t] = r]
    /\ lock' = 0

\* mutant of ActivateActive: x is not put back
ActivateActiveForgetsState(t) ==
    /\ pc[t] = "taken" /\ op[t] = "activate" /\ seen[t] = "Active"
    /\ state' = Invalid
    /\ taken' = [taken EXCEPT ![t] = Invalid]
    /\ pc' = [pc EXCEPT ![t] = "idle"]
    /\ ret' = [ret EXCEPT ![t] = Ok]
    /\ lock' = 0
    /\ UNCHANGED <<op, seen, blk, ncalls, workerVars, dev, sinkVars, dropped>>

\* activate, arm Active(x): put x back, Ok(())
ActivateActive(t) ==
    /\ pc[t] = "taken" /\ op[t] = "activate" /\ seen[t] = "Active"
    /\ state' = taken[t]
    /\ taken' = [taken EXCEPT ![t] = Invalid]
    /\ Return(t, Ok)
    /\ UNCHANGED <<op, seen, blk, ncalls, workerVars, dev, sinkVars, dropped>>

\* activate, arm Idle(rx_stream): move the handle into the blocking closure
ActivateIdle(t) ==
    /\ pc[t] = "taken" /\ op[t] = "activate" /\ seen[t] = "Idle"
    /\ blk' = [blk EXCEPT ![t] = [stage |-> "mtu", rx |-> taken[t].rx,
                                  worker |-> 0, res |-> NoResult]]
    /\ taken' = [taken EXCEPT ![t] = Invalid]
    /\ pc' = [pc EXCEPT ![t] = "blocking"]
    /\ UNCHANGED <<state, lock, op, seen, ret, ncalls, workerVars, dev,
                   sinkVars, dropped>>

\* the closure calls rx_stream.mtu()
BlockingMtu(t, ok) ==
    /\ blk[t].stage = "mtu"
    /\ dev' = DevOp("mtu", ok, dev.active)
    /\ blk' = [blk EXCEPT ![t] =
                 IF ok THEN [@ EXCEPT !.stage = "activate"]
                       ELSE [@ EXCEPT !.stage = "done",
                                      !.res = Err("mtu", 0, 0)]]
    /\ UNCHANGED <<state, lock, taskVars, workerVars, sinkVars, dropped>>

\* mutant of BlockingActivate: the error of rx_stream.activate is ignored
BlockingActivateIgnoresError(t, ok) ==
    /\ blk[t].stage = "activate"
    /\ dev' = DevOp("activate", ok, dev.active \/ ok)
    /\ blk' = [blk EXCEPT ![t] = [@ EXCEPT !.stage = "done", !.res = Ok]]
    /\ UNCHANGED <<state, lock, taskVars, workerVars, sinkVars, dropped>>

\* the closure calls rx_stream.activate(None)
BlockingActivate(t, ok) ==
    /\ blk[t].stage = "activate"
    /\ dev' = DevOp("activate", ok, dev.active \/ ok)
    /\ blk' = [blk EXCEPT ![t] =
                 [@ EXCEPT !.stage = "done",
                           !.res = IF ok THEN Ok ELSE Err("activate", 0, 0)]]
    /\ UNCHANGED <<state, lock, taskVars, workerVars, sinkVars, dropped>>

\* mutant of ActivateFailed: the error is returned without putting the
\* handle back into the state, so the handle is dropped
ActivateFailedDropsHandle(t) ==
    /\ pc[t] = "blocking" /\ blk[t].stage = "done" /\ IsErr(blk[t].res)
    /\ state' = Invalid
    /\ dropped' = dropped + blk[t].rx
    /\ blk' = [blk EXCEPT ![t] = NoClosure]
    /\ pc' = [pc EXCEPT ![t] = "idle"]
    /\ ret' = [ret EXCEPT ![t] = blk[t].res]
    /\ lock' = 0
    /\ UNCHANGED <<op, seen, taken, ncalls, workerVars, dev, sinkVars>>

\* activate resumes with Err((rx_stream, err)): back to Idle, return Err(err)
ActivateFailed(t) ==
    /\ pc[t] = "blocking" /\ blk[t].stage = "done" /\ IsErr(blk[t].res)
    /\ state' = Idle(blk[t].rx)
    /\ blk' = [blk EXCEPT ![t] = NoClosure]
    /\ Return(t, blk[t].res)
    /\ UNCHANGED <<op, seen, taken, ncalls, workerVars, dev, sinkVars, dropped>>

\* activate resumes with Ok((rx_stream, mtu)): spawn the worker thread,
\* which takes the handle, and store Active { abort, join_handle }
ActivateSpawn(t) ==
    /\ pc[t] = "blocking" /\ blk[t].stage = "done" /\ blk[t].res = Ok
    /\ nspawn < MaxCalls
    /\ LET w == nspawn + 1 IN
        /\ nspawn' = w
        /\ wpc' = [wpc EXCEPT ![w] = "check"]
        /\ wrx' = [wrx EXCEPT ![w] = blk[t].rx]
        /\ wresult' = [wresult EXCEPT ![w] = Ok]
        /\ abort' = [abort EXCEPT ![w] = "alive"]
        /\ state' = Active(w)
    /\ blk' = [blk EXCEPT ![t] = NoClosure]
    /\ Return(t, Ok)
    /\ UNCHANGED <<op, seen, taken, ncalls, wreads, wbatch, dev, sinkVars,
                   dropped>>

\* mutant of DeactivateIdle: the device is deactivated although idle
DeactivateIdleCallsDevice(t) ==
    /\ pc[t] = "taken" /\ op[t] = "deactivate" /\ seen[t] = "Idle"
    /\ state' = taken[t]
    /\ taken' = [taken EXCEPT ![t] = Invalid]
    /\ dev' = DevOp("deactivate", TRUE, FALSE)
    /\ pc' = [pc EXCEPT ![t] = "idle"]
    /\ ret' = [ret EXCEPT ![t] = Ok]
    /\ lock' = 0
    /\ UNCHANGED <<op, seen, blk, ncalls, workerVars, sinkVars, dropped>>

\* deactivate, arm Idle(x): put x back, Ok(())
DeactivateIdle(t) ==
    /\ pc[t] = "taken" /\ op[t] = "deactivate" /\ seen[t] = "Idle"
    /\ state' = taken[t]
    /\ taken' = [taken EXCEPT ![t] = Invalid]
    /\ Return(t, Ok)
    /\ UNCHANGED <<op, seen, blk, ncalls, workerVars, dev, sinkVars, dropped>>

\* mutant of DeactivateActive: the abort sender is not dropped
DeactivateActiveKeepsSender(t) ==
    /\ pc[t] = "taken" /\ op[t] = "deactivate" /\ seen[t] = "Active"
    /\ blk' = [blk EXCEPT ![t] = [stage |-> "join", rx |-> 0,
                                  worker |-> taken[t].worker,
                                  res |-> NoResult]]
    /\ taken' = [taken EXCEPT ![t] = Invalid]
    /\ pc' = [pc EXCEPT ![t] = "join"]
    /\ UNCHANGED <<state, lock, op, seen, ret, ncalls, workerVars, dev,
                   sinkVars, dropped>>

\* deactivate, arm Active: drop(abort), dispatch the closure that joins
DeactivateActive(t) ==
    /\ pc[t] = "taken" /\ op[t] = "deactivate" /\ seen[t] = "Active"
    /\ abort' = [abort EXCEPT ![taken[t].worker] = "dropped"]
    /\ blk' = [blk EXCEPT ![t] = [stage |-> "join", rx |-> 0,
                                  worker |-> taken[t].worker,
                                  res |-> NoResult]]
    /\ taken' = [taken EXCEPT ![t] = Invalid]
    /\ pc' = [pc EXCEPT ![t] = "join"]
    /\ UNCHANGED <<state, lock, op, seen, ret, ncalls, nspawn, wpc, wrx,
                   wresult, wreads, wbatch, dev, sinkVars, dropped>>

\* mutant of BlockingJoin: the closure does not wait for the thread to exit
BlockingJoinNoWait(t) ==
    /\ blk[t].stage = "join"
    /\ LET w == blk[t].worker IN
        /\ blk' = [blk EXCEPT ![t] = [stage |-> "done", rx |-> wrx[w],
                                      worker |-> w, res |-> wresult[w]]]
        /\ wrx' = [wrx EXCEPT ![w] = 0]
        /\ wpc' = [wpc EXCEPT ![w] = IF @ = "exited" THEN "joined" ELSE @]
    /\ UNCHANGED <<state, lock, taskVars, nspawn, wresult, wreads, wbatch,
                   abort, dev, sinkVars, dropped>>

\* join_handle.join() returns once the thread has exited and hands over
\* its SoapySdrRxRetval { rx_stream, result }
BlockingJoin(t) ==
    /\ blk[t].stage = "join"
    /\ wpc[blk[t].worker] = "exited"
    /\ LET w == blk[t].worker IN
        /\ blk' = [blk EXCEPT ![t] = [stage |-> "done", rx |-> wrx[w],
                                      worker |-> w, res |-> wresult[w]]]
        /\ wrx' = [wrx EXCEPT ![w] = 0]
        /\ wpc' = [wpc EXCEPT ![w] = "joined"]
    /\ UNCHANGED <<state, lock, taskVars, nspawn, wresult, wreads, wbatch,
                   abort, dev, sinkVars, dropped>>

\* mutant of DeactivateResume: an error result is returned before the
\* state is set back to Idle
DeactivateResumeEarlyReturn(t) ==
    /\ pc[t] = "join" /\ blk[t].stage = "done"
    /\ IF IsErr(blk[t].res)
         THEN state' = state /\ dropped' = dropped + blk[t].rx
         ELSE state' = Idle(blk[t].rx) /\ dropped' = dropped
    /\ blk' = [blk EXCEPT ![t] = NoClosure]
    /\ pc' = [pc EXCEPT ![t] = "idle"]
    /\ ret' = [ret EXCEPT ![t] = blk[t].res]
    /\ lock' = 0
    /\ UNCHANGED <<op, seen, taken, ncalls, workerVars, dev, sinkVars>>

\* deactivate resumes with retval: Idle(retval.rx_stream), retval.result
DeactivateResume(t) ==
    /\ pc[t] = "join" /\ blk[t].stage = "done"
    /\ state' = Idle(blk[t].rx)
    /\ blk' = [blk EXCEPT ![t] = NoClosure]
    /\ Return(t, blk[t].res)
    /\ UNCHANGED <<op, seen, taken, ncalls, workerVars, dev, sinkVars, dropped>>

\* ---- worker thread ----

\* mutant of WorkerCheck: has_changed().unwrap_or(false), a dropped sender
\* does not end the loop
WorkerCheckIgnoresDrop(w) ==
    /\ wpc[w] = "check"
    /\ wpc' = [wpc EXCEPT ![w] = "read"]
    /\ UNCHANGED <<state, lock, taskVars, blk, nspawn, wrx, wresult, wreads,
                   wbatch, abort, dev, sinkVars, dropped>>

\* mutant of WorkerCheck: a cancelled thread returns straight from the loop
WorkerCheckReturnsAtOnce(w) ==
    /\ wpc[w] = "check"
    /\ wpc' = [wpc EXCEPT ![w] = IF abort[w] = "dropped" THEN "exited"
                                                         ELSE "read"]
    /\ UNCHANGED <<state, lock, taskVars, blk, nspawn, wrx, wresult, wreads,
                   wbatch, abort, dev, sinkVars, dropped>>

\* while !abort_recv.has_changed().unwrap_or(true): a dropped sender makes
\* has_changed() an Err, so the loop is left; nothing is ever sent on it
WorkerCheck(w) ==
    /\ wpc[w] = "check"
    /\ wpc' = [wpc EXCEPT ![w] = IF abort[w] = "dropped" THEN "deactivate"
                                                         ELSE "read"]
    /\ UNCHANGED <<state, lock, taskVars, blk, nspawn, wrx, wresult, wreads,
                   wbatch, abort, dev, sinkVars, dropped>>

\* mutant of WorkerReadOk: a read of 0 samples is not forwarded
WorkerReadOkSkipsEmpty(w, count) ==
    /\ wpc[w] = "read"
    /\ wreads[w] < MaxReads
    /\ dev' = [DevOp("read", TRUE, dev.active) EXCEPT !.last.n = count]
    /\ wreads' = [wreads EXCEPT ![w] = @ + 1]
    /\ wbatch' = [wbatch EXCEPT ![w] = Truncate(DevMtu, count)]
    /\ wpc' = [wpc EXCEPT ![w] = IF count = 0 THEN "check" ELSE "send"]
    /\ UNCHANGED <<state, lock, taskVars, blk, nspawn, wrx, wresult, abort,
                   sinkVars, dropped>>

\* the buffer is resized to mtu, rx_stream.read(..) returns Ok(count) with
\* count <= mtu and the buffer is truncated to count
WorkerReadOk(w, count) ==
    /\ wpc[w] = "read"
    /\ wreads[w] < MaxReads
    /\ dev' = [DevOp("read", TRUE, dev.active) EXCEPT !.last.n = count]
    /\ wreads' = [wreads EXCEPT ![w] = @ + 1]
    /\ wbatch' = [wbatch EXCEPT ![w] = Truncate(DevMtu, count)]
    /\ wpc' = [wpc EXCEPT ![w] = "send"]
    /\ UNCHANGED <<state, lock, taskVars, blk, nspawn, wrx, wresult, abort,
                   sinkVars, dropped>>

\* mutant of WorkerReadErr: the error is recorded but the loop goes on
WorkerReadErrRetries(w) ==
    /\ wpc[w] = "read"
    /\ dev' = DevOp("read", FALSE, dev.active)
    /\ wresult' = [wresult EXCEPT ![w] = Err("read", w, wreads[w] + 1)]
    /\ wpc' = [wpc EXCEPT ![w] = "check"]
    /\ UNCHANGED <<state, lock, taskVars, blk, nspawn, wrx, wreads, wbatch,
                   abort, sinkVars, dropped>>

\* rx_stream.read(..) returns Err(err): result = Err(err); break
WorkerReadErr(w) ==
    /\ wpc[w] = "read"
    /\ dev' = DevOp("read", FALSE, dev.active)
    /\ wresult' = [wresult EXCEPT ![w] = Err("read", w, wreads[w] + 1)]
    /\ wpc' = [wpc EXCEPT ![w] = "deactivate"]
    /\ UNCHANGED <<state, lock, taskVars, blk, nspawn, wrx, wreads, wbatch,
                   abort, sinkVars, dropped>>

\* mutant of WorkerSend: the batch is dropped instead of waiting while the
\* sink is full
WorkerSendTrySend(w) ==
    /\ wpc[w] = "send"
    /\ IF sink = "ready"
         THEN delivered' = Append(delivered,
                  [w |-> w, k |-> wreads[w], len |-> wbatch[w],
                   rate |-> SampleRate])
         ELSE delivered' = delivered
    /\ wpc' = [wpc EXCEPT ![w] = IF sink = "closed" THEN "deactivate"
                                                    ELSE "check"]
    /\ wbatch' = [wbatch EXCEPT ![w] = 0]
    /\ UNCHANGED <<state, lock, taskVars, blk, nspawn, wrx, wresult, wreads,
                   abort, dev, sink, dropped>>

\* mutant of WorkerSend: a closed sink is recorded as an error
WorkerSendClosedIsError(w) ==
    /\ wpc[w] = "send"
    /\ sink # "full"
    /\ IF sink = "ready"
         THEN /\ delivered' = Append(delivered,
                     [w |-> w, k |-> wreads[w], len |-> wbatch[w],
                      rate |-> SampleRate])
              /\ wpc' = [wpc EXCEPT ![w] = "check"]
              /\ wresult' = wresult
         ELSE /\ delivered' = delivered
              /\ wpc' = [wpc EXCEPT ![w] = "deactivate"]
              /\ wresult' = [wresult EXCEPT ![w] = Err("send", w, wreads[w])]
    /\ wbatch' = [wbatch EXCEPT ![w] = 0]
    /\ UNCHANGED <<state, lock, taskVars, blk, nspawn, wrx, wreads,
                   abort, dev, sink, dropped>>

\* rt.block_on(sender.send(Signal::Samples {..})) completes: Ok(()) when the
\* sink takes the batch, otherwise break; it stays pending while the sink
\* is full
WorkerSend(w) ==
    /\ wpc[w] = "send"
    /\ sink # "full"
    /\ IF sink = "ready"
         THEN /\ delivered' = Append(delivered,
                     [w |-> w, k |-> wreads[w], len |-> wbatch[w],
                      rate |-> SampleRate])
              /\ wpc' = [wpc EXCEPT ![w] = "check"]
         ELSE /\ delivered' = delivered
              /\ wpc' = [wpc EXCEPT ![w] = "deactivate"]
    /\ wbatch' = [wbatch EXCEPT ![w] = 0]
    /\ UNCHANGED <<state, lock, taskVars, blk, nspawn, wrx, wresult, wreads,
                   abort, dev, sink, dropped>>

\* mutant of WorkerDeactivate: the thread exits without the device call
WorkerDeactivateSkipped(w, ok) ==
    /\ wpc[w] = "deactivate"
    /\ ok
    /\ wpc' = [wpc EXCEPT ![w] = "exited"]
    /\ UNCHANGED <<state, lock, taskVars, blk, nspawn, wrx, wresult, wreads,
                   wbatch, abort, dev, sinkVars, dropped>>

\* mutant of WorkerDeactivate: the cleanup error replaces an earlier error
WorkerDeactivateLastErrorWins(w, ok) ==
    /\ wpc[w] = "deactivate"
    /\ dev' = DevOp("deactivate", ok, dev.active /\ ~ok)
    /\ wresult' = [wresult EXCEPT ![w] =
                     IF ~ok THEN Err("deactivate", w, 0) ELSE @]
    /\ wpc' = [wpc EXCEPT ![w] = "exited"]
    /\ UNCHANGED <<state, lock, taskVars, blk, nspawn, wrx, wreads, wbatch,
                   abort, sinkVars, dropped>>

\* rx_stream.deactivate(None) after the loop; its error is kept only when
\* result is still Ok; the thread returns SoapySdrRxRetval and exits
WorkerDeactivate(w, ok) ==
    /\ wpc[w] = "deactivate"
    /\ dev' = DevOp("deactivate", ok, dev.active /\ ~ok)
    /\ wresult' = [wresult EXCEPT ![w] =
                     IF ~ok /\ @ = Ok THEN Err("deactivate", w, 0) ELSE @]
    /\ wpc' = [wpc EXCEPT ![w] = "exited"]
    /\ UNCHANGED <<state, lock, taskVars, blk, nspawn, wrx, wreads, wbatch,
                   abort, sinkVars, dropped>>

\* ---- distribution sink (consumers of self.sender) ----

SinkStall ==
    /\ sink = "ready"
    /\ sink' = "full"
    /\ UNCHANGED <<state, lock, taskVars, blk, workerVars, dev, delivered,
                   dropped>>

SinkDrain ==
    /\ sink = "full"
    /\ sink' = "ready"
    /\ UNCHANGED <<state, lock, taskVars, blk, workerVars, dev, delivered,
                   dropped>>

SinkClose ==
    /\ sink # "closed"
    /\ sink' = "closed"
    /\ UNCHANGED <<state, lock, taskVars, blk, workerVars, dev, delivered,
                   dropped>>

\* ---- specification: every call runs to completion ----

DoCall == \E t \in Tasks : \E o \in {"activate", "deactivate"} : Call(t, o)
DoLockTake == \E t \in Tasks : LockTake(t)
DoActivateActive == \E t \in Tasks : ActivateActive(t)
DoActivateIdle == \E t \in Tasks : ActivateIdle(t)
DoBlockingMtu == \E t \in Tasks : \E ok \in BOOLEAN : BlockingMtu(t, ok)
DoBlockingActivate == \E t \in Tasks : \E ok \in BOOLEAN : BlockingActivate(t, ok)
DoActivateFailed == \E t \in Tasks : ActivateFailed(t)
DoActivateSpawn == \E t \in Tasks : ActivateSpawn(t)
DoDeactivateIdle == \E t \in Tasks : DeactivateIdle(t)
DoDeactivateActive == \E t \in Tasks : DeactivateActive(t)
DoBlockingJoin == \E t \in Tasks : BlockingJoin(t)
DoDeactivateResume == \E t \in Tasks : DeactivateResume(t)
DoWorkerCheck == \E w \in Workers : WorkerCheck(w)
DoWorkerReadOk == \E w \in Workers : \E n \in 0..DevMtu : WorkerReadOk(w, n)
DoWorkerReadErr == \E w \in Workers : WorkerReadErr(w)
DoWorkerSend == \E w \in Workers : WorkerSend(w)
DoWorkerDeactivate == \E w \in Workers : \E ok \in BOOLEAN : WorkerDeactivate(w, ok)

Next ==
    \/ DoCall
    \/ DoLockTake
    \/ DoActivateActive
    \/ DoActivateIdle
    \/ DoBlockingMtu
    \/ DoBlockingActivate
    \/ DoActivateFailed
    \/ DoActivateSpawn
    \/ DoDeactivateIdle
    \/ DoDeactivateActive
    \/ DoBlockingJoin
    \/ DoDeactivateResume
    \/ DoWorkerCheck
    \/ DoWorkerReadOk
    \/ DoWorkerReadErr
    \/ DoWorkerSend
    \/ DoWorkerDeactivate
    \/ SinkStall
    \/ SinkDrain
    \/ SinkClose

Spec == Init /\ [][Next]_vars

\* ---- calls that do not run to completion ----

\* the future of a call is dropped at one of its .await points: the guard,
\* if held, is released with the state as it is; a closure already handed
\* to spawn_blocking keeps running detached
Abandon(t) ==
    /\ pc[t] \in {"lock", "blocking", "join"}
    /\ pc' = [pc EXCEPT ![t] = "idle"]
    /\ ret' = [ret EXCEPT ![t] = Abandoned]
    /\ lock' = IF lock = t THEN 0 ELSE lock
    /\ UNCHANGED <<state, op, seen, taken, blk, ncalls, workerVars, dev,
                   sinkVars, dropped>>

\* the output of a detached closure is dropped, and the handle with it
BlockingDiscard(t) ==
    /\ blk[t].stage = "done"
    /\ pc[t] \notin {"blocking", "join"}
    /\ dropped' = dropped + blk[t].rx
    /\ blk' = [blk EXCEPT ![t] = NoClosure]
    /\ UNCHANGED <<state, lock, taskVars, workerVars, dev, sinkVars>>

\* the activation closure panics: spawn_blocking(..).await is a JoinError
\* and .unwrap() panics; unwinding drops the handle and releases the guard
ClosurePanic(t) ==
    /\ pc[t] = "blocking"
    /\ blk[t].stage \in {"mtu", "activate"}
    /\ dropped' = dropped + blk[t].rx
    /\ blk' = [blk EXCEPT ![t] = NoClosure]
    /\ Return(t, Panicked)
    /\ UNCHANGED <<state, op, seen, taken, ncalls, workerVars, dev, sinkVars>>

\* arm Invalid of either entry point: panic!("invalid state in SoapySdrRx")
TakeInvalid(t) ==
    /\ pc[t] = "taken" /\ seen[t] = "Invalid"
    /\ taken' = [taken EXCEPT ![t] = Invalid]
    /\ Return(t, Panicked)
    /\ UNCHANGED <<state, op, seen, blk, ncalls, workerVars, dev, sinkVars,
                   dropped>>

DoAbandon == \E t \in Tasks : Abandon(t)
DoBlockingDiscard == \E t \in Tasks : BlockingDiscard(t)
DoClosurePanic == \E t \in Tasks : ClosurePanic(t)
DoTakeInvalid == \E t \in Tasks : TakeInvalid(t)

NextCancel ==
    \/ Next
    \/ DoAbandon
    \/ DoBlockingDiscard
    \/ DoClosurePanic
    \/ DoTakeInvalid

SpecCancel == Init /\ [][NextCancel]_vars

\* ---- fairness: tasks, blocking closures and the worker thread are
\* scheduled; the device answers every operation; a pending send completes
\* if the sink is ready or closed again and again; nothing is assumed of
\* the sink's consumers or of the callers issuing further calls ----

Fairness ==
    /\ WF_vars(DoLockTake)
    /\ WF_vars(DoActivateActive)
    /\ WF_vars(DoActivateIdle)
    /\ WF_vars(DoBlockingMtu)
    /\ WF_vars(DoBlockingActivate)
    /\ WF_vars(DoActivateFailed)
    /\ WF_vars(DoActivateSpawn)
    /\ WF_vars(DoDeactivateIdle)
    /\ WF_vars(DoDeactivateActive)
    /\ WF_vars(DoBlockingJoin)
    /\ WF_vars(DoDeactivateResume)
    /\ \A w \in Workers :
        /\ WF_vars(WorkerCheck(w))
        /\ WF_vars(\E n \in 0..DevMtu : WorkerReadOk(w, n) \/ WorkerReadErr(w))
        /\ SF_vars(WorkerSend(w))
        /\ WF_vars(\E ok \in BOOLEAN : WorkerDeactivate(w, ok))

FairSpec == Spec /\ Fairness

\* ---- dropping the adapter ----

\* the SoapySdrRx value is dropped while no call borrows it: an Idle state
\* drops the handle; an Active state drops the abort sender and the join
\* handle, which detaches the worker thread
DropAdapter ==
    /\ \A t \in Tasks : pc[t] = "idle"
    /\ state.tag # "Dropped"
    /\ state' = Dropped
    /\ abort' = IF state.tag = "Active"
                 THEN [abort EXCEPT ![state.worker] = "dropped"]
                 ELSE abort
    /\ dropped' = dropped + state.rx
    /\ UNCHANGED <<lock, taskVars, blk, nspawn, wpc, wrx, wresult, wreads,
                   wbatch, dev, sinkVars>>

NextDrop ==
    \/ Next
    \/ DropAdapter

FairSpecDrop == Init /\ [][NextDrop]_vars /\ Fairness

\* ---- properties ----

RECURSIVE SumOver(_, _)
SumOver(f, S) ==
    IF S = {} THEN 0
    ELSE LET x == CHOOSE y \in S : TRUE IN f[x] + SumOver(f, S \ {x})

\* the thread has been spawned and has not exited
Running(w) == wpc[w] \in {"check", "read", "send", "deactivate"}

\* rx_stream handles held by the transition of task t
HeldBy(t) == taken[t].rx + blk[t].rx

\* task t is between take() and the end of its call
InTransition(t) == pc[t] \in {"taken", "blocking", "join"}

\* worker the transition of task t is joining, 0 if none
Joining(t) == IF pc[t] = "join" THEN blk[t].worker ELSE 0

\* C1: the device stream handle always has exactly one owner: the state
\* (only as Idle), the transition of the task holding the state lock, or one
\* worker thread, which is then the worker of the Active state or the one
\* the lock holder is joining; no handle is ever destroyed.
HandleConservation ==
    /\ state.rx + SumOver([t \in Tasks |-> HeldBy(t)], Tasks)
         + SumOver(wrx, Workers) = 1
    /\ dropped = 0
    /\ state.rx = 1 => state.tag = "Idle"
    /\ \A t \in Tasks : HeldBy(t) = 1 => lock = t
    /\ \A w \in Workers : wrx[w] = 1 =>
          \/ state = Active(w)
          \/ \E t \in Tasks : lock = t /\ w \in {taken[t].worker, Joining(t)}

\* C1 witness: a worker failed a read, deactivate returned that error and
\* the handle is back in the Idle state
HandleBackAfterFailure ==
    \E t \in Tasks : pc[t] = "idle" /\ ret[t].op = "read" /\ state = Idle(1)

\* C2: calls are serialized by the state lock (a task between take and
\* return holds it), no call's take ever returns Invalid, and at most one
\* worker thread is spawned and not yet exited.
MutualExclusion ==
    /\ \A t \in Tasks : InTransition(t) => lock = t
    /\ \A t \in Tasks : seen[t] # "Invalid"
    /\ Cardinality({w \in Workers : Running(w)}) <= 1

\* C2 witness: one call is inside its transition with the worker running
\* while the other task's call waits for the lock
ConcurrentCallsSerialized ==
    \E t \in Tasks, u \in Tasks :
        /\ t # u /\ pc[t] = "join" /\ pc[u] = "lock"
        /\ Running(blk[t].worker)

\* C3: whenever the state lock is free the state is Idle or Active.
NeverLeftInvalid ==
    lock = 0 => state.tag \in {"Idle", "Active"}

\* the call of task t returns its Result in this step
Returns(t) ==
    pc[t] # "idle" /\ pc'[t] = "idle" /\ (ret'[t] = Ok \/ IsErr(ret'[t]))

\* C4: an activate call that finds the state Active returns Ok, puts the
\* Active value it took back unchanged, spawns no worker, issues no device
\* operation and leaves every cancellation sender and worker untouched;
\* its take issued no device operation and spawned nothing either.
IdempotentStart ==
    [][\A t \in Tasks :
        /\ (pc[t] = "lock" /\ pc'[t] = "taken" /\ op[t] = "activate"
              /\ state.tag = "Active")
            => /\ taken'[t] = state
               /\ dev' = dev /\ nspawn' = nspawn /\ abort' = abort
        /\ (pc[t] = "taken" /\ op[t] = "activate" /\ seen[t] = "Active"
              /\ pc'[t] # pc[t])
            => /\ Returns(t) /\ ret'[t] = Ok
               /\ taken[t].tag = "Active" /\ state' = taken[t]
               /\ dev' = dev /\ nspawn' = nspawn /\ abort' = abort
               /\ wpc' = wpc /\ wrx' = wrx
               /\ abort[taken[t].worker] = "alive"]_vars

\* C4 witness: a second activate found Active and returned Ok with exactly
\* one worker spawned
SecondActivateReturned ==
    \E t \in Tasks : /\ pc[t] = "idle" /\ op[t] = "activate"
                     /\ seen[t] = "Active" /\ ret[t] = Ok /\ nspawn = 1

\* C5: a deactivate call that finds the state Idle returns Ok and puts the
\* Idle value with its handle back; neither its take nor its return issues
\* a device operation, and no worker is joined, spawned or signalled.
IdempotentStop ==
    [][\A t \in Tasks :
        /\ (pc[t] = "lock" /\ pc'[t] = "taken" /\ op[t] = "deactivate"
              /\ state.tag = "Idle")
            => /\ taken'[t] = state
               /\ dev' = dev /\ nspawn' = nspawn /\ abort' = abort
               /\ wpc' = wpc
        /\ (pc[t] = "taken" /\ op[t] = "deactivate" /\ seen[t] = "Idle"
              /\ pc'[t] # pc[t])
            => /\ Returns(t) /\ ret'[t] = Ok
               /\ taken[t] = Idle(1) /\ state' = taken[t]
               /\ dev' = dev /\ nspawn' = nspawn /\ abort' = abort
               /\ wpc' = wpc /\ wrx' = wrx /\ wresult' = wresult]_vars

\* C5 witness: one task's deactivate returned a worker's read error and the
\* other task's deactivate then found Idle and returned Ok
SecondDeactivateReturned ==
    \E t \in Tasks, u \in Tasks :
        /\ t # u /\ pc[t] = "idle" /\ op[t] = "deactivate"
        /\ ret[t].op = "read"
        /\ pc[u] = "idle" /\ op[u] = "deactivate" /\ seen[u] = "Idle"
        /\ ret[u] = Ok

\* C6: when the mtu query or the device activate fails, the closure ends
\* there, holding the handle, with that operation's error and no further
\* device operation; activate then returns exactly that error,
\* spawns no worker and leaves the state Idle with the handle and the lock
\* free, so that the next activate finds Idle again.
FailedActivation ==
    [][\A t \in Tasks :
        /\ (blk[t].stage \in {"mtu", "activate"} /\ blk'[t] # blk[t]
              /\ dev'.tick # dev.tick /\ ~dev'.last.ok)
            => /\ dev'.last.op = blk[t].stage
               /\ blk'[t] = [stage |-> "done", rx |-> 1, worker |-> 0,
                             res |-> Err(blk[t].stage, 0, 0)]
               /\ pc'[t] = "blocking" /\ lock' = t /\ nspawn' = nspawn
        /\ (pc[t] = "blocking" /\ IsErr(blk[t].res) /\ Returns(t))
            => /\ ret'[t] = blk[t].res
               /\ ret'[t].op \in {"mtu", "activate"}
               /\ state' = Idle(1) /\ lock' = 0
               /\ nspawn' = nspawn /\ wpc' = wpc /\ abort' = abort]_vars

\* C6 witness: one activate returned the device's error and a later
\* activate of the other task found Idle, spawned the worker and returned Ok
RetryAfterFailedActivation ==
    \E t \in Tasks, u \in Tasks :
        /\ t # u /\ pc[t] = "idle" /\ op[t] = "activate"
        /\ ret[t].op \in {"mtu", "activate"}
        /\ pc[u] = "idle" /\ op[u] = "activate" /\ seen[u] = "Idle"
        /\ ret[u] = Ok /\ nspawn = 1

\* C7: when a worker's K-th read fails the worker records that error and
\* leaves its loop; from then on it is past the loop with exactly K-1
\* successful reads and that error as its result, and the deactivate call
\* that joins this worker returns exactly that error.
ErrorSurfacing ==
    /\ [](\A w \in Workers : wresult[w].op = "read" =>
            /\ wresult[w] = Err("read", w, wreads[w] + 1)
            /\ wpc[w] \in {"deactivate", "exited", "joined"})
    /\ [][\A w \in Workers :
            (wpc[w] = "read" /\ wpc'[w] # "read" /\ ~dev'.last.ok)
            => /\ wresult'[w] = Err("read", w, wreads[w] + 1)
               /\ wpc'[w] = "deactivate" /\ wreads'[w] = wreads[w]
               /\ delivered' = delivered]_vars
    /\ [][\A t \in Tasks :
            (pc[t] = "join" /\ Returns(t)
               /\ wresult[blk[t].worker].op = "read")
            => ret'[t] = Err("read", blk[t].worker,
                             wreads[blk[t].worker] + 1)]_vars

\* C7 witness: deactivate returned the error of a worker's second read
SecondReadErrorReturned ==
    \E t \in Tasks : /\ pc[t] = "idle" /\ op[t] = "deactivate"
                     /\ seen[t] = "Active"
                     /\ ret[t].op = "read" /\ ret[t].k = 2

\* C8: when a deactivate call that found Active returns, with Ok or with an
\* error, its worker has exited and been joined, the state is Idle with the
\* handle and the lock is free.
UnconditionalCleanup ==
    [][\A t \in Tasks :
        (op[t] = "deactivate" /\ seen[t] = "Active" /\ Returns(t))
        => /\ pc[t] = "join"
           /\ wpc'[blk[t].worker] = "joined"
           /\ wrx'[blk[t].worker] = 0
           /\ state' = Idle(1) /\ lock' = 0]_vars

\* C8 witness: a deactivate that found Active returned an error and the
\* state is Idle
DeactivateReturnedError ==
    \E t \in Tasks : /\ pc[t] = "idle" /\ op[t] = "deactivate"
                     /\ seen[t] = "Active" /\ IsErr(ret[t])
                     /\ state = Idle(1)

\* C9: while a worker is spawned and not exited the state is not Idle; a
\* running worker only ever proceeds or exits through its device
\* deactivate call; and a deactivate that found Active returns only after
\* its worker has exited.
AwaitedCancellation ==
    /\ [](\A w \in Workers : Running(w) => state.tag # "Idle")
    /\ [][\A w \in Workers :
            /\ Running(w) => (Running(w)' \/ wpc'[w] = "exited")
            /\ (Running(w) /\ wpc'[w] = "exited")
                 => (wpc[w] = "deactivate" /\ dev'.tick # dev.tick)]_vars
    /\ [][\A t \in Tasks :
            (op[t] = "deactivate" /\ seen[t] = "Active" /\ Returns(t))
            => wpc[blk[t].worker] \in {"exited", "joined"}]_vars

\* C9 witness: deactivate has dropped the sender and waits while its
\* worker is still inside a device read
DeactivateWaitsForWorker ==
    \E t \in Tasks : /\ pc[t] = "join" /\ wpc[blk[t].worker] = "read"
                     /\ abort[blk[t].worker] = "dropped"

\* C10: once the cancellation sender of a worker is dropped the worker
\* eventually exits, and a deactivate waiting for its worker eventually
\* returns, whatever the sink does.
CancellationLiveness ==
    /\ \A w \in Workers :
          (abort[w] = "dropped") ~> (wpc[w] \in {"exited", "joined"})
    /\ \A t \in Tasks : (pc[t] = "join") ~> (pc[t] = "idle")

\* batches the sink accepted from worker w, in order
BatchesOf(w) == SelectSeq(delivered, LAMBDA b : b.w = w)

InLoop(w) == wpc[w] \in {"check", "read", "send"}

\* C12: whenever an activate call returns Ok, whether it found Idle or
\* Active, a worker is inside its read loop and the device is activated.
ActivateOkMeansStreaming ==
    [][\A t \in Tasks :
        (op[t] = "activate" /\ Returns(t) /\ ret'[t] = Ok)
        => (dev'.active /\ \E w \in Workers : InLoop(w)')]_vars

\* C13: once the adapter has been dropped, every worker still running
\* eventually leaves its loop, calls the device's deactivate and exits.
DroppedAdapterStops ==
    \A w \in Workers :
        (state.tag = "Dropped" /\ Running(w)) ~> (wpc[w] = "exited")

\* C14: a worker inside its loop has recorded no error; when its send
\* reports the sink closed it leaves the loop for the device deactivate
\* with result still Ok, nothing delivered and no device operation; from
\* there it only exits, never reads or sends again; a successful device
\* deactivate then leaves the result Ok, and the deactivate call that
\* joins the worker returns that result.
SinkClosedIsNoError ==
    /\ [](\A w \in Workers : InLoop(w) => wresult[w] = Ok)
    /\ [][\A w \in Workers :
            /\ (wpc[w] = "send" /\ sink = "closed" /\ wpc'[w] # "send")
                => /\ wpc'[w] = "deactivate" /\ wresult'[w] = Ok
                   /\ delivered' = delivered /\ dev' = dev
            /\ wpc[w] = "deactivate"
                => /\ wpc'[w] \in {"deactivate", "exited"}
                   /\ delivered' = delivered
                   /\ (dev' # dev => dev'.last.op = "deactivate")
            /\ (wpc[w] = "deactivate" /\ wpc'[w] = "exited"
                  /\ wresult[w] = Ok /\ dev'.last.ok)
                => wresult'[w] = Ok]_vars
    /\ [][\A t \in Tasks :
            (pc[t] = "join" /\ Returns(t))
            => ret'[t] = wresult[blk[t].worker]]_vars

\* C14 witness: a worker's read succeeded, its batch was refused by the
\* closed sink, and the deactivate call that joined it returned Ok
DeactivateOkAfterSinkClosed ==
    \E t \in Tasks, w \in Workers :
        /\ pc[t] = "idle" /\ op[t] = "deactivate" /\ seen[t] = "Active"
        /\ ret[t] = Ok /\ sink = "closed"
        /\ wpc[w] = "joined" /\ wreads[w] = 1 /\ BatchesOf(w) = <<>>

\* worker thread w has been spawned and not yet joined
Exists(w) == wpc[w] \notin {"none", "joined"}

DeviceDeactivateOncePerRun ==
    [][/\ \A w \in Workers :
            /\ (InLoop(w) /\ ~InLoop(w)') => wpc'[w] = "deactivate"
            /\ (wpc[w] = "deactivate" /\ wpc'[w] # "deactivate")
                => /\ wpc'[w] = "exited"
                   /\ dev'.last.op = "deactivate" /\ dev'.tick # dev.tick
            /\ wpc[w] = "exited" => wpc'[w] \in {"exited", "joined"}
            /\ wpc[w] = "joined" => wpc'[w] = "joined"
            /\ wpc'[w] = "exited" => wpc[w] \in {"deactivate", "exited"}
       /\ (dev' # dev /\ dev'.last.op = "deactivate")
            => \E w \in Workers :
                  /\ wpc[w] = "deactivate" /\ wpc'[w] = "exited"
                  /\ \A v \in Workers \ {w} : wpc'[v] = wpc[v]]_vars

\* C16 witness: a worker whose loop ended by a read error has exited, and
\* the last device operation is its deactivate
DeactivatedAfterReadError ==
    \E w \in Workers :
        /\ wpc[w] = "exited" /\ IsErr(wresult[w]) /\ wresult[w].op = "read"
        /\ dev.last.op = "deactivate"

\* C17: when a worker thread exits, its result is the read error if one
\* was recorded, otherwise the error of the cleanup device deactivate if
\* that failed, otherwise success; while the thread waits to be joined the
\* result does not change, and the deactivate call that joins it returns
\* exactly that result.
FirstErrorWins ==
    /\ [][\A w \in Workers :
            /\ (wpc[w] = "deactivate" /\ wpc'[w] = "exited")
                => wresult'[w] =
                     IF IsErr(wresult[w]) /\ wresult[w].op = "read"
                       THEN wresult[w]
                       ELSE IF ~dev'.last.ok THEN Err("deactivate", w, 0)
                                             ELSE Ok
            /\ wpc[w] \in {"exited", "joined"} => wresult'[w] = wresult[w]]_vars
    /\ [][\A t \in Tasks :
            (pc[t] = "join" /\ Returns(t))
            => /\ op[t] = "deactivate" /\ seen[t] = "Active"
               /\ wpc[blk[t].worker] = "joined"
               /\ ret'[t] = wresult[blk[t].worker]]_vars

\* C17 witness: deactivate returned the read error of a worker whose cleanup
\* device deactivate failed as well
ReadErrorOutlivesCleanupError ==
    \E t \in Tasks :
        /\ pc[t] = "idle" /\ op[t] = "deactivate" /\ seen[t] = "Active"
        /\ IsErr(ret[t]) /\ ret[t].op = "read"
        /\ dev.last.op = "deactivate" /\ ~dev.last.ok

\* C18: every successful device read (and nothing else) takes its worker to
\* the send with a batch whose length is the count the read returned,
\* between 0 and the mtu; the batch is not changed while the send is
\* pending; a send the sink accepts appends exactly that one batch, tagged
\* with the sample rate, and goes on to the next loop check, for an empty
\* batch as for any other; nothing else appends to the delivered batches.
OneBatchPerRead ==
    [][/\ \A w \in Workers :
            /\ (wpc[w] = "read" /\ wpc'[w] = "send")
                => /\ dev'.last.op = "read" /\ dev'.last.ok
                   /\ dev'.last.n \in 0..DevMtu
                   /\ wbatch'[w] = dev'.last.n
                   /\ wreads'[w] = wreads[w] + 1
            /\ (wpc[w] = "send" /\ wpc'[w] = "send") => wbatch'[w] = wbatch[w]
            /\ (wpc[w] = "send" /\ wpc'[w] # "send" /\ sink = "ready")
                => /\ wpc'[w] = "check"
                   /\ delivered' = Append(delivered,
                          [w |-> w, k |-> wreads[w], len |-> wbatch[w],
                           rate |-> SampleRate])
            /\ wpc'[w] = "send" => wpc[w] \in {"read", "send"}
       /\ (dev' # dev /\ dev'.last.op = "read" /\ dev'.last.ok)
            => \E w \in Workers : wpc[w] = "read" /\ wpc'[w] = "send"
       /\ delivered' # delivered
            => \E w \in Workers :
                  /\ wpc[w] = "send" /\ wpc'[w] = "check"
                  /\ Len(delivered') = Len(delivered) + 1]_vars

\* C18 witness: a read returned 0 samples, the empty batch was delivered,
\* the next read failed and deactivate returned that read error after the
\* worker's device deactivate
EmptyBatchThenReadError ==
    \E t \in Tasks, w \in Workers :
        /\ pc[t] = "idle" /\ op[t] = "deactivate"
        /\ ret[t] = Err("read", w, 2)
        /\ Len(BatchesOf(w)) = 1 /\ BatchesOf(w)[1].len = 0
        /\ dev.last.op = "deactivate"

\* number of places (the state, a task's taken value, a task's closure)
\* that hold the abort sender and join handle of worker w
HoldersOf(w) ==
    (IF state.worker = w THEN 1 ELSE 0)
    + SumOver([t \in Tasks |-> IF taken[t].worker = w THEN 1 ELSE 0], Tasks)
    + SumOver([t \in Tasks |-> IF blk[t].worker = w THEN 1 ELSE 0], Tasks)

\* C19: the abort sender and join handle of a worker are held in one place
\* at most; while the state holds them the sender is alive and the thread
\* unjoined; the sender is dropped only by a deactivate call that took
\* Active(w) out of the state, and stays dropped; the thread is joined only
\* by the closure of that same call, after the drop, and stays joined; a
\* worker's read or cleanup error is returned only by the deactivate call
\* that joined this worker, and never by an activate call.
ConsumedByMatchingDeactivate ==
    /\ [](\A w \in Workers :
            /\ HoldersOf(w) <= 1
            /\ state.worker = w => (abort[w] = "alive" /\ Exists(w))
            /\ wpc[w] = "joined" => (abort[w] = "dropped" /\ state.worker # w))
    /\ [][\A w \in Workers :
            /\ abort'[w] # abort[w]
                => \/ wpc[w] = "none" /\ state'.worker = w
                   \/ /\ abort[w] = "alive" /\ abort'[w] = "dropped"
                      /\ \E t \in Tasks :
                            /\ op[t] = "deactivate" /\ pc[t] = "taken"
                            /\ taken[t] = Active(w)
                            /\ pc'[t] = "join" /\ blk'[t].worker = w
            /\ (wpc[w] # "joined" /\ wpc'[w] = "joined")
                => /\ wpc[w] = "exited" /\ abort[w] = "dropped"
                   /\ \E t \in Tasks :
                         /\ op[t] = "deactivate" /\ pc[t] = "join"
                         /\ blk[t].worker = w /\ blk'[t].res = wresult[w]
            /\ wpc[w] = "joined" => wpc'[w] = "joined"]_vars
    /\ [][\A t \in Tasks :
            (Returns(t) /\ ret'[t].op \in {"read", "deactivate"})
            => /\ op[t] = "deactivate" /\ pc[t] = "join"
               /\ blk[t].worker = ret'[t].w /\ blk'[t].worker = 0
               /\ wpc[ret'[t].w] = "joined"
               /\ ret'[t] = wresult[ret'[t].w]]_vars

\* C19 witness: in a second cycle, after the first worker's error was
\* returned by the deactivate of the first cycle, a second worker runs with
\* a live sender while the first stays joined with its sender dropped
SecondCycleAfterReturnedError ==
    \E t \in Tasks :
        /\ pc[t] = "idle" /\ op[t] = "deactivate" /\ IsErr(ret[t])
        /\ ret[t].w = 1 /\ wpc[1] = "joined" /\ abort[1] = "dropped"
        /\ state = Active(2) /\ abort[2] = "alive" /\ Running(2)

\* what is left of the current loop iteration of worker w: 3 before its
\* device read, 2 before its send returns, 1 at the loop check, 0 outside
LoopRank(w) ==
    CASE wpc[w] = "read" -> 3
      [] wpc[w] = "send" -> 2
      [] wpc[w] = "check" -> 1
      [] OTHER -> 0

\* C20: once the abort sender of a worker is dropped, what is left of the
\* worker's loop iteration never grows again: its loop check only leaves the
\* loop, so no new iteration starts; every device read is made by a worker at
\* its read and every delivery by a worker at its send, and each takes that
\* worker further down, so at most one read and at most one send follow
\* the drop.
BoundedOverrun ==
    [][/\ \A w \in Workers :
            abort[w] = "dropped"
            => /\ abort'[w] = "dropped"
               /\ LoopRank(w)' <= LoopRank(w)
               /\ (wpc[w] = "check" /\ wpc'[w] # "check")
                    => wpc'[w] = "deactivate"
               /\ (wpc[w] = "read" /\ wpc'[w] # "read")
                    => wpc'[w] \in {"send", "deactivate"}
               /\ (wpc[w] = "send" /\ wpc'[w] # "send")
                    => wpc'[w] \in {"check", "deactivate"}
       /\ (dev' # dev /\ dev'.last.op = "read")
            => \E w \in Workers :
                  /\ LoopRank(w) = 3 /\ LoopRank(w)' < 3
                  /\ \A v \in Workers \ {w} : wpc'[v] = wpc[v]
       /\ delivered' # delivered
            => \E w \in Workers :
                  /\ LoopRank(w) = 2 /\ LoopRank(w)' < 2
                  /\ \A v \in Workers \ {w} : wpc'[v] = wpc[v]]_vars

\* C20 witness: deactivate has dropped the sender and waits for the join
\* while the worker is still in the iteration it had begun: its read has
\* returned and its send is pending on a full sink
OverrunIterationPending ==
    \E t \in Tasks, w \in Workers :
        /\ pc[t] = "join" /\ blk[t].stage = "join" /\ blk[t].worker = w
        /\ abort[w] = "dropped" /\ wpc[w] = "send" /\ sink = "full"
        /\ dev.last.op = "read" /\ dev.last.ok

====
